---- MODULE Spec2Model ----
(***************************************************************************)
(* A model of src/audio_analyzer.py: the upload / submit / poll / parse    *)
(* pipeline of AudioAnalyzer.analyze_audio and the scoring of              *)
(* ContentMatcher.match_content.                                           *)
(*                                                                         *)
(* Python values are modelled as follows.                                  *)
(*   - a JSON object (dict) is a function whose DOMAIN is the set of keys  *)
(*     that are present; the empty object is <<>>;                         *)
(*   - a list is a sequence;                                               *)
(*   - a string built by an f-string is the sequence of its parts, so      *)
(*     string concatenation is \o;                                         *)
(*   - a float is an exact decimal: a confidence is counted in tenths      *)
(*     (0.8 is 8, 1.0 is 10), the weights 0.5 and 0.3 are 5 and 3 tenths,  *)
(*     and a score, the product of two such numbers, is counted in         *)
(*     hundredths (0.64 is 64).  Binary rounding is not modelled.          *)
(***************************************************************************)
EXTENDS Integers, Sequences, FiniteSets, TLC

VARIABLES
    analyzer,       \* the AudioAnalyzer's fields: api_key, base_url, headers
    files,          \* the file system: the size in bytes of each existing file
    pc,             \* per call: position inside analyze_audio
    audio_path,     \* per call: argument audio_path
    is_url,         \* per call: argument is_url
    audio_url,      \* per call: local audio_url
    transcript_id,  \* per call: local transcript_id
    response,       \* per call: the last HTTP response received
    transcript,     \* per call: local transcript (the last poll response)
    requests,       \* per call: the HTTP requests issued so far, in order
    raised,         \* per call: the exception that left analyze_audio
    result,         \* per call: the list analyze_audio returned
    segments,       \* ContentMatcher.segments
    added,          \* the arguments of the add_segments calls so far, concatenated
    add_calls,      \* the number of add_segments calls so far
    last_call,      \* the ContentMatcher method that returned last
    preferences,    \* argument of match_content, when it is the last call
    matches         \* value returned by match_content, when it is the last call

vars == <<analyzer, files, pc, audio_path, is_url, audio_url, transcript_id, response,
          transcript, requests, raised, result, segments, added, add_calls, last_call,
          preferences, matches>>

callVars == <<pc, audio_path, is_url, audio_url, transcript_id, response,
              transcript, requests, raised, result>>

matcherVars == <<segments, added, add_calls, last_call, preferences, matches>>

----------------------------------------------------------------------------
(* Bounds of the model *)

MaxPolls == 3       \* polls of one call that the model follows
MaxChapters == 2    \* chapters in one poll response
MaxSegments == 2    \* segments in the matcher's working set
MaxAdds == 2        \* add_segments calls on one matcher

----------------------------------------------------------------------------
(* Python values *)

None == "None"

EmptyObject == <<>>

\* dict.get(key, default)
Get(obj, key, default) == IF key \in DOMAIN obj THEN obj[key] ELSE default

\* the exception classes the code raises
FileNotFoundError == "FileNotFoundError"

RuntimeError == "RuntimeError"

KeyError == "KeyError"

\* an exception object: its class and the parts of its message
Exception(type, msg) == [type |-> type, msg |-> msg]

NoException == [type |-> None, msg |-> <<>>]

\* str(e) of an exception: its message
Str(e) == e.msg

\* str(KeyError(key)) is the repr of the key
KeyErrorOf(key) == Exception(KeyError, <<"'", key, "'">>)

----------------------------------------------------------------------------
(* The environment: the file system and the service's possible answers *)

Calls == {"c1", "c2"}

ExistingPaths == {"talk.mp3"}

AudioPaths == {"talk.mp3", "missing.mp3", "https://example.com/talk.mp3"}

\* os.path.exists
PathExists(path) == path \in ExistingPaths

\* the size of the chunks of an upload: 5 MiB
ChunkSize == 5242880

\* the sizes of the files of the model: empty, one byte, about one chunk,
\* two chunks, two chunks and a rest
FileSizes ==
    {0, 1, ChunkSize - 1, ChunkSize, ChunkSize + 1, 2 * ChunkSize, 2 * ChunkSize + 7}

\* f.read(n) of a file of the given size at position pos: the number of
\* bytes returned
FileRead(size, pos, n) == IF size - pos < n THEN size - pos ELSE n

\* a read_file that reads the file with one f.read()
ReadFile_WholeFile(size, pos) ==
    IF size - pos = 0 THEN <<>> ELSE <<[offset |-> pos, length |-> size - pos]>>

\* the generator read_file from position pos on: the chunks it yields, each
\* the value of data in one iteration, given by its offset and its length
RECURSIVE ReadFile(_, _)
ReadFile(size, pos) ==
    LET data == FileRead(size, pos, ChunkSize)
    IN  IF data = 0 THEN <<>>
        ELSE <<[offset |-> pos, length |-> data]>> \o ReadFile(size, pos + data)

ApiKeys == {"key-A"}

UploadUrls == {"https://cdn.assemblyai.com/upload/u1",
               "https://cdn.assemblyai.com/upload/u2"}

JobIds == {"job1", "job2"}

\* answers to POST /upload: status code, raw body, parsed body
UploadResponses ==
    {[status_code |-> 200, text |-> u, json |-> [upload_url |-> u]] : u \in UploadUrls}
    \cup {[status_code |-> 200, text |-> "{}", json |-> EmptyObject],
          [status_code |-> 401, text |-> "unauthorized", json |-> [error |-> "unauthorized"]],
          [status_code |-> 500, text |-> "server error", json |-> EmptyObject]}

\* answers to POST /transcript
SubmitResponses ==
    {[status_code |-> 200, json |-> [id |-> j]] : j \in JobIds}
    \cup {[status_code |-> 200, json |-> EmptyObject],
          [status_code |-> 400, json |-> [error |-> "bad request"]],
          [status_code |-> 201, json |-> [id |-> "job1"]],
          [status_code |-> 500, json |-> EmptyObject]}

\* the optional fields of a chapter, each present or absent
OptionalFields ==
    {s @@ p @@ e @@ c :
        s \in {EmptyObject, [summary |-> "Intro"]},
        p \in {EmptyObject, [topics |-> <<"tech", "sports">>]},
        e \in {EmptyObject, [sentiment |-> "positive"]},
        c \in {EmptyObject, [confidence |-> 8]}}

\* a chapter always has start and end.  The chapters of the model lack none,
\* one, three or all four of the optional fields; the last two do not have
\* start < end, and one of them has an empty topic list and confidence 0
Chapters ==
    {[start |-> 0, end |-> 5000] @@ o :
        o \in {f \in OptionalFields : Cardinality(DOMAIN f) # 2}}
    \cup {[start |-> 9000, end |-> 4000],
          [start |-> 9000, end |-> 4000, summary |-> "Outro", topics |-> <<>>,
           sentiment |-> "negative", confidence |-> 0]}

RECURSIVE SeqsUpTo(_, _)
SeqsUpTo(S, n) ==
    IF n = 0 THEN {<<>>}
    ELSE LET shorter == SeqsUpTo(S, n - 1)
         IN  shorter \cup {Append(q, x) : q \in shorter, x \in S}

ChapterLists == SeqsUpTo(Chapters, MaxChapters)

\* answers to GET /transcript/{id}; the code reads only the parsed body
PendingBodies ==
    {EmptyObject, [status |-> "queued"], [status |-> "processing"],
     [status |-> "throttled"],
     [status |-> "processing", chapters |-> <<[start |-> 0, end |-> 5000]>>]}

ErrorBodies ==
    {[status |-> "error"],
     [status |-> "error", error |-> "bad audio"],
     [status |-> "error", error |-> "file unreachable"]}

CompletedBodies ==
    {[status |-> "completed"]}
    \cup {[status |-> "completed", chapters |-> cs] : cs \in ChapterLists}

PollResponsesOf(bodies) ==
    {[status_code |-> 200, json |-> b] : b \in bodies}
    \cup {[status_code |-> 500, json |-> EmptyObject]}

PollResponses == PollResponsesOf(PendingBodies \cup ErrorBodies \cup CompletedBodies)

----------------------------------------------------------------------------
(* AudioAnalyzer *)

BaseUrl == "https://api.assemblyai.com/v2"

\* AudioAnalyzer.__init__ with the key found in the environment
NewAnalyzer(key) ==
    [api_key |-> key, base_url |-> BaseUrl, headers |-> [authorization |-> key]]

\* the requests of the three steps, with the keyword arguments of requests
UploadRequest(path) ==
    [method |-> "POST", url |-> <<analyzer.base_url, "/upload">>,
     headers |-> analyzer.headers, data |-> ReadFile(files[path], 0)]

SubmitRequest(url) ==
    [method |-> "POST", url |-> <<analyzer.base_url, "/transcript">>,
     headers |-> analyzer.headers,
     json |-> [audio_url |-> url, auto_highlights |-> TRUE,
               iab_categories |-> TRUE, sentiment_analysis |-> TRUE]]

PollRequest(id) ==
    [method |-> "GET", url |-> <<analyzer.base_url, "/transcript/", id>>,
     headers |-> analyzer.headers]

\* what a piece of code produced: a returned value or a raised exception
Returned(value) == [raised |-> NoException, value |-> <<value>>]

Raised(e) == [raised |-> e, value |-> <<>>]

\* _upload_file without the test of the status code
UploadFileOutcome_NoStatusCheck(resp) ==
    IF "upload_url" \in DOMAIN resp.json
    THEN Returned(resp.json["upload_url"])
    ELSE Raised(KeyErrorOf("upload_url"))

\* the outcome of _upload_file on the service's answer
UploadFileOutcome(resp) ==
    IF resp.status_code # 200
    THEN Raised(Exception(RuntimeError, <<"Upload failed: ", resp.text>>))
    ELSE IF "upload_url" \in DOMAIN resp.json
         THEN Returned(resp.json["upload_url"])
         ELSE Raised(KeyErrorOf("upload_url"))

\* the try/except around the upload in analyze_audio
ResolveOutcome(resp) ==
    LET out == UploadFileOutcome(resp)
    IN  IF out.raised # NoException
        THEN Raised(Exception(RuntimeError,
                              <<"Failed to upload file: ">> \o Str(out.raised)))
        ELSE out

\* the job id read with dict.get, so that a missing id is not an error
SubmitOutcome_GetId(resp) ==
    IF resp.status_code # 200
    THEN Raised(Exception(RuntimeError,
                          <<"Failed to create transcription. Status code: ",
                            ToString(resp.status_code)>>))
    ELSE Returned(Get(resp.json, "id", None))

\* the reading of the answer to POST /transcript: the job id or an exception
SubmitOutcome(resp) ==
    IF resp.status_code # 200
    THEN Raised(Exception(RuntimeError,
                          <<"Failed to create transcription. Status code: ",
                            ToString(resp.status_code)>>))
    ELSE IF "id" \in DOMAIN resp.json
         THEN Returned(resp.json["id"])
         ELSE Raised(Exception(RuntimeError,
                               <<"Failed to get transcription ID from API response">>))

\* the exception of the polling loop with the message of the submit step
TranscriptionFailed_SubmitMessage(t) ==
    Exception(RuntimeError, <<"Failed to create transcription. Status code: ",
                              Get(t, "error", "Unknown error")>>)

\* the exception of the polling loop without the service's error value
TranscriptionFailed_Generic(t) ==
    Exception(RuntimeError, <<"Transcription failed: ", "Unknown error">>)

\* the exception of the polling loop for a transcript whose status is error
TranscriptionFailed(t) ==
    Exception(RuntimeError, <<"Transcription failed: ", Get(t, "error", "Unknown error")>>)

\* a polling loop that waits only on the statuses it knows
PollBranch_KnownStatusesOnly(t) ==
    LET status == Get(t, "status", None)
    IN  IF status = "completed" THEN "break"
        ELSE IF status \in {"queued", "processing"} THEN "sleep"
        ELSE "raise"

\* a polling loop that waits on after the status error
PollBranch_ErrorKeepsPolling(t) ==
    LET status == Get(t, "status", None)
    IN  IF status = "completed" THEN "break" ELSE "sleep"

\* the branch the polling loop takes on a transcript
PollBranch(t) ==
    LET status == Get(t, "status", None)
    IN  IF status = "completed" THEN "break"
        ELSE IF status = "error" THEN "raise"
        ELSE "sleep"

\* AudioSegment built with dict.get without a default for sentiment
SegmentOf_NoSentimentDefault(chapter) ==
    [start_ms   |-> chapter["start"],
     end_ms     |-> chapter["end"],
     text       |-> Get(chapter, "summary", ""),
     topics     |-> Get(chapter, "topics", <<>>),
     sentiment  |-> Get(chapter, "sentiment", None),
     confidence |-> Get(chapter, "confidence", 10)]

\* AudioSegment built from one chapter
SegmentOf(chapter) ==
    [start_ms   |-> chapter["start"],
     end_ms     |-> chapter["end"],
     text       |-> Get(chapter, "summary", ""),
     topics     |-> Get(chapter, "topics", <<>>),
     sentiment  |-> Get(chapter, "sentiment", "neutral"),
     confidence |-> Get(chapter, "confidence", 10)]

\* a tail of analyze_audio that treats a transcript without chapters as a failure
ProcessResults_RequireChapters(t) ==
    LET chapters == Get(t, "chapters", <<>>)
    IN  IF chapters = <<>>
        THEN Raised(Exception(RuntimeError, <<"No chapters found in the transcript">>))
        ELSE Returned([i \in 1..Len(chapters) |-> SegmentOf(chapters[i])])

\* a tail of analyze_audio that skips the chapters that do not start before
\* they end
ProcessResults_ValidChaptersOnly(t) ==
    LET chapters == SelectSeq(Get(t, "chapters", <<>>),
                              LAMBDA ch : ch["start"] < ch["end"])
    IN  Returned([i \in 1..Len(chapters) |-> SegmentOf(chapters[i])])

\* the tail of analyze_audio: the segments of a completed transcript
ProcessResults(t) ==
    LET chapters == Get(t, "chapters", <<>>)
    IN  IF chapters = <<>>
        THEN Returned(<<>>)
        ELSE Returned([i \in 1..Len(chapters) |-> SegmentOf(chapters[i])])

\* the existence check with the flag inverted
MissingLocalFile_InvertedFlag(path, isurl) == isurl /\ ~PathExists(path)

\* the existence check at the entry of analyze_audio
MissingLocalFile(path, isurl) == ~isurl /\ ~PathExists(path)

\* an exception leaves analyze_audio
Fail(c, e) ==
    /\ pc' = [pc EXCEPT ![c] = "raised"]
    /\ raised' = [raised EXCEPT ![c] = e]

\* an entry of analyze_audio that submits the source as it is, uploading nothing
AnalyzeAudio_SkipUpload(c, path, isurl) ==
    /\ pc[c] \in {"idle", "returned", "raised"}
    /\ audio_path' = [audio_path EXCEPT ![c] = path]
    /\ is_url' = [is_url EXCEPT ![c] = isurl]
    /\ requests' = [requests EXCEPT ![c] = <<>>]
    /\ transcript_id' = [transcript_id EXCEPT ![c] = None]
    /\ response' = [response EXCEPT ![c] = EmptyObject]
    /\ transcript' = [transcript EXCEPT ![c] = EmptyObject]
    /\ result' = [result EXCEPT ![c] = <<>>]
    /\ IF MissingLocalFile(path, isurl)
       THEN /\ Fail(c, Exception(FileNotFoundError, <<"Audio file not found: ", path>>))
            /\ audio_url' = [audio_url EXCEPT ![c] = None]
       ELSE /\ raised' = [raised EXCEPT ![c] = NoException]
            /\ audio_url' = [audio_url EXCEPT ![c] = path]
            /\ pc' = [pc EXCEPT ![c] = "submit"]
    /\ UNCHANGED <<analyzer, files, matcherVars>>

\* entry of analyze_audio: the existence check and the choice of the first step
AnalyzeAudio(c, path, isurl) ==
    /\ pc[c] \in {"idle", "returned", "raised"}
    /\ audio_path' = [audio_path EXCEPT ![c] = path]
    /\ is_url' = [is_url EXCEPT ![c] = isurl]
    /\ requests' = [requests EXCEPT ![c] = <<>>]
    /\ transcript_id' = [transcript_id EXCEPT ![c] = None]
    /\ response' = [response EXCEPT ![c] = EmptyObject]
    /\ transcript' = [transcript EXCEPT ![c] = EmptyObject]
    /\ result' = [result EXCEPT ![c] = <<>>]
    /\ IF MissingLocalFile(path, isurl)
       THEN /\ Fail(c, Exception(FileNotFoundError, <<"Audio file not found: ", path>>))
            /\ audio_url' = [audio_url EXCEPT ![c] = None]
       ELSE /\ raised' = [raised EXCEPT ![c] = NoException]
            /\ IF isurl
               THEN /\ audio_url' = [audio_url EXCEPT ![c] = path]
                    /\ pc' = [pc EXCEPT ![c] = "submit"]
               ELSE /\ audio_url' = [audio_url EXCEPT ![c] = None]
                    /\ pc' = [pc EXCEPT ![c] = "upload"]
    /\ UNCHANGED <<analyzer, files, matcherVars>>

\* audio_url = self._upload_file(audio_path), inside the try of analyze_audio
UploadFile(c, resp) ==
    /\ pc[c] = "upload"
    /\ requests' = [requests EXCEPT ![c] = Append(@, UploadRequest(audio_path[c]))]
    /\ response' = [response EXCEPT ![c] = resp]
    /\ LET out == ResolveOutcome(resp)
       IN  IF out.raised # NoException
           THEN /\ Fail(c, out.raised)
                /\ UNCHANGED audio_url
           ELSE /\ audio_url' = [audio_url EXCEPT ![c] = out.value[1]]
                /\ pc' = [pc EXCEPT ![c] = "submit"]
                /\ UNCHANGED raised
    /\ UNCHANGED <<analyzer, files, audio_path, is_url, transcript_id, transcript,
                   result, matcherVars>>

\* a submit that keeps the job id in one place for all the calls
Submit_SharedJobId(c, resp) ==
    /\ pc[c] = "submit"
    /\ requests' = [requests EXCEPT ![c] = Append(@, SubmitRequest(audio_url[c]))]
    /\ response' = [response EXCEPT ![c] = resp]
    /\ LET out == SubmitOutcome(resp)
       IN  IF out.raised # NoException
           THEN /\ Fail(c, out.raised)
                /\ UNCHANGED transcript_id
           ELSE /\ transcript_id' = [d \in Calls |-> out.value[1]]
                /\ pc' = [pc EXCEPT ![c] = "poll"]
                /\ UNCHANGED raised
    /\ UNCHANGED <<analyzer, files, audio_path, is_url, audio_url, transcript,
                   result, matcherVars>>

\* requests.post(.../transcript) and the reading of the job id
Submit(c, resp) ==
    /\ pc[c] = "submit"
    /\ requests' = [requests EXCEPT ![c] = Append(@, SubmitRequest(audio_url[c]))]
    /\ response' = [response EXCEPT ![c] = resp]
    /\ LET out == SubmitOutcome(resp)
       IN  IF out.raised # NoException
           THEN /\ Fail(c, out.raised)
                /\ UNCHANGED transcript_id
           ELSE /\ transcript_id' = [transcript_id EXCEPT ![c] = out.value[1]]
                /\ pc' = [pc EXCEPT ![c] = "poll"]
                /\ UNCHANGED raised
    /\ UNCHANGED <<analyzer, files, audio_path, is_url, audio_url, transcript,
                   result, matcherVars>>

\* the number of poll requests in a request log
RECURSIVE CountPolls(_)
CountPolls(log) ==
    IF log = <<>> THEN 0
    ELSE (IF Head(log).method = "GET" THEN 1 ELSE 0) + CountPolls(Tail(log))

\* one iteration of the polling loop, with the processing of the results
\* when the loop is left by break
Poll(c, resp) ==
    /\ pc[c] = "poll"
    /\ CountPolls(requests[c]) < MaxPolls
    /\ requests' = [requests EXCEPT ![c] = Append(@, PollRequest(transcript_id[c]))]
    /\ response' = [response EXCEPT ![c] = resp]
    /\ transcript' = [transcript EXCEPT ![c] = resp.json]
    /\ LET branch == PollBranch(resp.json)
           out == ProcessResults(resp.json)
       IN  CASE branch = "raise" ->
                  /\ Fail(c, TranscriptionFailed(resp.json))
                  /\ UNCHANGED result
             [] branch = "sleep" ->
                  /\ pc' = [pc EXCEPT ![c] = "sleep"]
                  /\ UNCHANGED <<raised, result>>
             [] branch = "break" /\ out.raised # NoException ->
                  /\ Fail(c, out.raised)
                  /\ UNCHANGED result
             [] branch = "break" /\ out.raised = NoException ->
                  /\ result' = [result EXCEPT ![c] = out.value[1]]
                  /\ pc' = [pc EXCEPT ![c] = "returned"]
                  /\ UNCHANGED raised
    /\ UNCHANGED <<analyzer, files, audio_path, is_url, audio_url, transcript_id, matcherVars>>

\* time.sleep(30) at the end of a loop iteration
Sleep(c) ==
    /\ pc[c] = "sleep"
    /\ pc' = [pc EXCEPT ![c] = "poll"]
    /\ UNCHANGED <<analyzer, files, audio_path, is_url, audio_url, transcript_id, response,
                   transcript, requests, raised, result, matcherVars>>

----------------------------------------------------------------------------
(* The analyzer: one caller making analyze_audio calls one after another *)

MainCall == "c1"

InitCalls ==
    /\ pc = [c \in Calls |-> "idle"]
    /\ audio_path = [c \in Calls |-> None]
    /\ is_url = [c \in Calls |-> FALSE]
    /\ audio_url = [c \in Calls |-> None]
    /\ transcript_id = [c \in Calls |-> None]
    /\ response = [c \in Calls |-> EmptyObject]
    /\ transcript = [c \in Calls |-> EmptyObject]
    /\ requests = [c \in Calls |-> <<>>]
    /\ raised = [c \in Calls |-> NoException]
    /\ result = [c \in Calls |-> <<>>]

InitMatcher ==
    /\ segments = <<>>
    /\ added = <<>>
    /\ add_calls = 0
    /\ last_call = "__init__"
    /\ preferences = EmptyObject
    /\ matches = <<>>

Init ==
    /\ analyzer \in {NewAnalyzer(k) : k \in ApiKeys}
    /\ files = [p \in ExistingPaths |-> 2 * ChunkSize + 7]
    /\ InitCalls
    /\ InitMatcher

Next ==
    \/ \E path \in AudioPaths, isurl \in BOOLEAN : AnalyzeAudio(MainCall, path, isurl)
    \/ \E resp \in UploadResponses : UploadFile(MainCall, resp)
    \/ \E resp \in SubmitResponses : Submit(MainCall, resp)
    \/ \E resp \in PollResponses : Poll(MainCall, resp)
    \/ Sleep(MainCall)

Spec == Init /\ [][Next]_vars

----------------------------------------------------------------------------
(* The analyzer: two callers whose analyze_audio calls interleave *)

PairPollResponses ==
    PollResponsesOf({[status |-> "processing"],
                     [status |-> "error", error |-> "bad audio"],
                     [status |-> "completed"]})

NextPair ==
    \E c \in Calls :
        \/ \E path \in AudioPaths, isurl \in BOOLEAN : AnalyzeAudio(c, path, isurl)
        \/ \E resp \in UploadResponses : UploadFile(c, resp)
        \/ \E resp \in SubmitResponses : Submit(c, resp)
        \/ \E resp \in PairPollResponses : Poll(c, resp)
        \/ Sleep(c)

SpecPair == Init /\ [][NextPair]_vars

----------------------------------------------------------------------------
(* The analyzer: one caller, and a file of any of the sizes *)

InitUpload ==
    /\ analyzer \in {NewAnalyzer(k) : k \in ApiKeys}
    /\ files \in [ExistingPaths -> FileSizes]
    /\ InitCalls
    /\ InitMatcher

NextUpload ==
    \/ \E path \in AudioPaths, isurl \in BOOLEAN : AnalyzeAudio(MainCall, path, isurl)
    \/ \E resp \in UploadResponses : UploadFile(MainCall, resp)
    \/ \E resp \in SubmitResponses : Submit(MainCall, resp)
    \/ \E resp \in PairPollResponses : Poll(MainCall, resp)
    \/ Sleep(MainCall)

SpecUpload == InitUpload /\ [][NextUpload]_vars

----------------------------------------------------------------------------
(* The analyzer: one caller whose job becomes terminal; the loop runs on *)

\* the chapters that have a start and an end only
PlainChapters == {ch \in Chapters : DOMAIN ch = {"start", "end"}}

TerminalBodies ==
    ErrorBodies
    \cup {[status |-> "completed"]}
    \cup {[status |-> "completed", chapters |-> cs] :
              cs \in SeqsUpTo(PlainChapters, MaxChapters)}

\* the answers the service can give the next poll of a call: any answer, and
\* a terminal one at the latest to the last poll of the model
NextPollResponses(c) ==
    IF CountPolls(requests[c]) + 1 < MaxPolls
    THEN PollResponsesOf(PendingBodies \cup TerminalBodies)
    ELSE {[status_code |-> 200, json |-> b] : b \in TerminalBodies}

NextTerminal ==
    \/ \E path \in AudioPaths, isurl \in BOOLEAN : AnalyzeAudio(MainCall, path, isurl)
    \/ \E resp \in UploadResponses : UploadFile(MainCall, resp)
    \/ \E resp \in SubmitResponses : Submit(MainCall, resp)
    \/ \E resp \in NextPollResponses(MainCall) : Poll(MainCall, resp)
    \/ Sleep(MainCall)

\* a call that is in its polling loop goes on: requests.get returns and
\* time.sleep(30) ends
SpecTerminal ==
    /\ Init
    /\ [][NextTerminal]_vars
    /\ WF_vars(\E resp \in NextPollResponses(MainCall) : Poll(MainCall, resp))
    /\ WF_vars(Sleep(MainCall))

----------------------------------------------------------------------------
(* ContentMatcher *)

\* the weights of match_content, in tenths
TopicWeight == 5

ToneWeight == 3

\* set(list)
SetOf(list) == {list[i] : i \in DOMAIN list}

\* a score that divides the topic part by the number of topics of the segment
Score_Normalised(segment, prefs) ==
    LET common == SetOf(segment.topics) \cap SetOf(Get(prefs, "topics", <<>>))
        topic  == IF segment.topics = <<>> THEN 0
                  ELSE (Cardinality(common) * TopicWeight) \div Len(segment.topics)
        tone   == IF segment.sentiment = Get(prefs, "preferred_tone", None)
                  THEN ToneWeight ELSE 0
    IN  (topic + tone) * segment.confidence

\* a score that counts every occurrence of a preferred topic in the segment
Score_CountingRepeats(segment, prefs) ==
    LET preferred == SetOf(Get(prefs, "topics", <<>>))
        topic  == Cardinality({i \in DOMAIN segment.topics :
                                  segment.topics[i] \in preferred}) * TopicWeight
        tone   == IF segment.sentiment = Get(prefs, "preferred_tone", None)
                  THEN ToneWeight ELSE 0
    IN  (topic + tone) * segment.confidence

\* the score match_content gives one segment, in hundredths
Score(segment, prefs) ==
    LET common == SetOf(segment.topics) \cap SetOf(Get(prefs, "topics", <<>>))
        topic  == Cardinality(common) * TopicWeight
        tone   == IF segment.sentiment = Get(prefs, "preferred_tone", None)
                  THEN ToneWeight ELSE 0
    IN  (topic + tone) * segment.confidence

\* a test that keeps the segments that score 0 as well
Keep_NotNegative(score) == score >= 0

\* the test that puts a scored segment into matches
Keep(score) == score > 0

\* the list matches at the end of the loop over the first n segments
RECURSIVE Scored(_, _, _)
Scored(segs, prefs, n) ==
    IF n = 0 THEN <<>>
    ELSE LET rest  == Scored(segs, prefs, n - 1)
             score == Score(segs[n], prefs)
         IN  IF Keep(score) THEN Append(rest, <<segs[n], score>>) ELSE rest

\* an insertion that puts a pair in front of the pairs that score the same
InsertByScore_BeforeEqual(sorted, m) ==
    LET ahead == Cardinality({i \in DOMAIN sorted : sorted[i][2] > m[2]})
    IN  SubSeq(sorted, 1, ahead) \o <<m>> \o SubSeq(sorted, ahead + 1, Len(sorted))

\* one pair put into a list sorted by descending score, behind the pairs
\* that score the same
InsertByScore(sorted, m) ==
    LET ahead == Cardinality({i \in DOMAIN sorted : sorted[i][2] >= m[2]})
    IN  SubSeq(sorted, 1, ahead) \o <<m>> \o SubSeq(sorted, ahead + 1, Len(sorted))

\* sorted(matches, key=score, reverse=True): stable, descending
RECURSIVE SortedByScore(_)
SortedByScore(ms) ==
    IF ms = <<>> THEN <<>>
    ELSE InsertByScore(SortedByScore(SubSeq(ms, 1, Len(ms) - 1)), ms[Len(ms)])

\* an extend that skips the elements the list already holds
RECURSIVE Extend_Unique(_, _)
Extend_Unique(list, batch) ==
    IF batch = <<>> THEN list
    ELSE Extend_Unique(IF \E i \in DOMAIN list : list[i] = Head(batch)
                       THEN list ELSE Append(list, Head(batch)),
                       Tail(batch))

\* list.extend(batch)
Extend(list, batch) == list \o batch

\* ContentMatcher.add_segments
AddSegments(batch) ==
    /\ Len(segments) + Len(batch) <= MaxSegments
    /\ add_calls < MaxAdds
    /\ segments' = Extend(segments, batch)
    /\ added' = added \o batch
    /\ add_calls' = add_calls + 1
    /\ last_call' = "add_segments"
    /\ preferences' = EmptyObject
    /\ matches' = <<>>
    /\ UNCHANGED <<analyzer, files, callVars>>

\* a match_content that drops from the working set what it does not return
MatchContent_Pruning(prefs) ==
    /\ preferences' = prefs
    /\ matches' = SortedByScore(Scored(segments, prefs, Len(segments)))
    /\ last_call' = "match_content"
    /\ segments' = SelectSeq(segments, LAMBDA g : Keep(Score(g, prefs)))
    /\ UNCHANGED <<analyzer, files, callVars, added, add_calls>>

\* ContentMatcher.match_content
MatchContent(prefs) ==
    /\ preferences' = prefs
    /\ matches' = SortedByScore(Scored(segments, prefs, Len(segments)))
    /\ last_call' = "match_content"
    /\ UNCHANGED <<analyzer, files, callVars, segments, added, add_calls>>

\* the segments given to the matcher
TopicLists ==
    {<<>>, <<"tech">>, <<"tech", "sports">>, <<"sports", "tech">>, <<"tech", "tech">>}

Sentiments == {"positive", None}

Confidences == {0, 8}

\* every topic list with every sentiment at confidence 0.8 (sports before
\* tech with a positive sentiment only), and the segments about tech at
\* confidence 0 as well
MatcherSegments ==
    {g \in {[start_ms |-> 0, end_ms |-> 5000, text |-> "Intro",
             topics |-> t, sentiment |-> s, confidence |-> f] :
                t \in TopicLists, s \in Sentiments, f \in Confidences} :
        /\ g.confidence = 0 => g.topics = <<"tech">>
        /\ g.topics = <<"sports", "tech">> => g.sentiment = "positive"}

\* the preferences given to the matcher: both keys are optional
Preferences ==
    {t @@ p :
        t \in {EmptyObject} \cup
              {[topics |-> l] : l \in {<<>>, <<"tech">>, <<"sports", "tech">>,
                                       <<"tech", "sports">>, <<"tech", "tech">>,
                                       <<"news">>}},
        p \in {EmptyObject} \cup
              {[preferred_tone |-> x] : x \in {"positive", "negative"}}}

NextMatcher ==
    \/ \E batch \in SeqsUpTo(MatcherSegments, MaxSegments - Len(segments)) :
           AddSegments(batch)
    \/ \E prefs \in Preferences : MatchContent(prefs)

SpecMatcher == Init /\ [][NextMatcher]_vars

----------------------------------------------------------------------------
(* Reading a call's state *)

\* the step a request belongs to
StepOf(req) ==
    IF req.method = "GET" THEN "poll"
    ELSE IF req.url[2] = "/upload" THEN "upload"
    ELSE "submit"

\* the step of the last request a call issued
LastStep(c) ==
    IF requests[c] = <<>> THEN None ELSE StepOf(requests[c][Len(requests[c])])

\* the number of requests of one step that a call issued
CountStep(c, step) ==
    Cardinality({i \in DOMAIN requests[c] : StepOf(requests[c][i]) = step})

\* the status of a call's last poll response
LastStatus(c) == Get(transcript[c], "status", None)

----------------------------------------------------------------------------
(* Error handling of analyze_audio *)

\* C1: a call analyze_audio(source, is_url=False) whose source is not an
\* existing local path has failed with FileNotFoundError (the spec's
\* NotFoundError) and has issued no upload, submit or poll request.
C1_MissingFileFailsBeforeNetwork ==
    \A c \in Calls :
        (pc[c] # "idle" /\ ~is_url[c] /\ audio_path[c] \notin ExistingPaths)
        => /\ pc[c] = "raised"
           /\ raised[c].type = FileNotFoundError
           /\ requests[c] = <<>>

C1_Witness ==
    /\ pc[MainCall] = "raised"
    /\ audio_path[MainCall] = "missing.mp3"
    /\ ~is_url[MainCall]
    /\ raised[MainCall].type = FileNotFoundError

\* C2: when the upload of a call is answered with a status other than 200,
\* the call has failed with the upload error (a RuntimeError whose message is
\* "Failed to upload file: Upload failed: " followed by the response body),
\* the upload request is the only request of the call; when it is answered
\* 200 with upload_url, that URL is the audio_url the call goes on with.
C2_UploadFailureIsFatal ==
    \A c \in Calls :
        LastStep(c) = "upload"
        => /\ response[c].status_code # 200
              => /\ pc[c] = "raised"
                 /\ raised[c].type = RuntimeError
                 /\ raised[c].msg = <<"Failed to upload file: ", "Upload failed: ",
                                      response[c].text>>
                 /\ requests[c] = <<UploadRequest(audio_path[c])>>
           /\ (response[c].status_code = 200 /\ "upload_url" \in DOMAIN response[c].json)
              => /\ pc[c] = "submit"
                 /\ raised[c] = NoException
                 /\ audio_url[c] = response[c].json["upload_url"]
                 /\ audio_url[c] \in UploadUrls

C2_Witness ==
    /\ LastStep(MainCall) = "upload"
    /\ response[MainCall].status_code = 401
    /\ pc[MainCall] = "raised"
    /\ raised[MainCall].msg[3] = "unauthorized"

\* C3: when the submit request is answered with a status other than 200, or
\* with 200 and no id, the call has failed with the submission error (a
\* RuntimeError with one of the two submission messages), it has issued the
\* submit request exactly once and no poll request.
C3_SubmitFailureIsFatal ==
    \A c \in Calls :
        (/\ LastStep(c) = "submit"
         /\ \/ response[c].status_code # 200
            \/ "id" \notin DOMAIN response[c].json)
        => /\ pc[c] = "raised"
           /\ raised[c].type = RuntimeError
           /\ IF response[c].status_code # 200
              THEN raised[c].msg = <<"Failed to create transcription. Status code: ",
                                     ToString(response[c].status_code)>>
              ELSE raised[c].msg = <<"Failed to get transcription ID from API response">>
           /\ CountStep(c, "submit") = 1
           /\ CountStep(c, "poll") = 0
           /\ transcript_id[c] = None

C3_Witness ==
    /\ LastStep(MainCall) = "submit"
    /\ response[MainCall].status_code = 200
    /\ "id" \notin DOMAIN response[MainCall].json
    /\ pc[MainCall] = "raised"
    /\ CountStep(MainCall, "upload") = 1

\* C4: when a poll response has status error, the call has failed with the
\* transcription error (a RuntimeError "Transcription failed: ...") whose
\* message ends with the error value of that same response, that poll is
\* the last request of the call, and no segment list has been returned.
C4_ErrorStatusIsFatal ==
    \A c \in Calls :
        (LastStep(c) = "poll" /\ LastStatus(c) = "error")
        => /\ pc[c] = "raised"
           /\ raised[c].type = RuntimeError
           /\ raised[c].msg[1] = "Transcription failed: "
           /\ transcript[c] = response[c].json
           /\ "error" \in DOMAIN response[c].json
              => raised[c].msg = <<"Transcription failed: ", response[c].json["error"]>>
           /\ result[c] = <<>>

C4_Witness ==
    /\ pc[MainCall] = "raised"
    /\ CountStep(MainCall, "poll") = 2
    /\ LastStatus(MainCall) = "error"
    /\ raised[MainCall].msg = <<"Transcription failed: ", "file unreachable">>

----------------------------------------------------------------------------
(* The polling loop and the parsing of the results *)

\* C6: after a poll response whose status is neither completed nor error
\* (queued, processing, an unknown value or no status at all) the call is
\* still inside the loop: it has neither returned nor failed, the sleep is
\* followed by nothing but the next poll of the same job, and the number of
\* polls is limited by the bound of the model only.
C6_StillPolling ==
    \A c \in Calls :
        (LastStep(c) = "poll" /\ LastStatus(c) \notin {"completed", "error"})
        => /\ pc[c] \in {"sleep", "poll"}
           /\ raised[c] = NoException
           /\ result[c] = <<>>

C6_PollsAgain ==
    \A c \in Calls :
        /\ (pc[c] = "sleep" /\ pc'[c] # "sleep")
           => /\ pc'[c] = "poll"
              /\ requests'[c] = requests[c]
              /\ transcript_id'[c] = transcript_id[c]
        /\ (pc[c] = "poll" /\ pc'[c] # "poll")
           => requests'[c] = Append(requests[c], PollRequest(transcript_id[c]))

C6_NonTerminalStatusKeepsPolling == []C6_StillPolling /\ [][C6_PollsAgain]_vars

C6_Witness ==
    /\ CountStep(MainCall, "poll") = MaxPolls
    /\ pc[MainCall] = "sleep"
    /\ "status" \notin DOMAIN transcript[MainCall]

\* C7: when the completed poll response has no chapters field, or an empty
\* chapters array, the call has returned the empty list and raised nothing.
C7_NoChaptersIsSuccess ==
    \A c \in Calls :
        (/\ LastStep(c) = "poll"
         /\ LastStatus(c) = "completed"
         /\ \/ "chapters" \notin DOMAIN transcript[c]
            \/ transcript[c]["chapters"] = <<>>)
        => /\ pc[c] = "returned"
           /\ result[c] = <<>>
           /\ raised[c] = NoException

C7_Witness ==
    /\ pc[MainCall] = "returned"
    /\ LastStatus(MainCall) = "completed"
    /\ "chapters" \notin DOMAIN transcript[MainCall]
    /\ result[MainCall] = <<>>

\* C8: every chapter of a completed response has produced a segment whose
\* sentiment is "neutral", confidence 1.0 (10 tenths), text "" and topics
\* empty where the chapter lacks sentiment, confidence, summary and topics,
\* whose other fields are the chapter's values, and whose start_ms and
\* end_ms are the chapter's start and end.
C8_FieldDefaults ==
    \A c \in Calls :
        (/\ LastStep(c) = "poll"
         /\ LastStatus(c) = "completed"
         /\ "chapters" \in DOMAIN transcript[c])
        => \A i \in DOMAIN transcript[c]["chapters"] :
              LET ch == transcript[c]["chapters"][i]
              IN  /\ pc[c] = "returned"
                  /\ i \in DOMAIN result[c]
                  /\ result[c][i].start_ms = ch["start"]
                  /\ result[c][i].end_ms = ch["end"]
                  /\ result[c][i].sentiment =
                        IF "sentiment" \in DOMAIN ch THEN ch["sentiment"] ELSE "neutral"
                  /\ result[c][i].confidence =
                        IF "confidence" \in DOMAIN ch THEN ch["confidence"] ELSE 10
                  /\ result[c][i].text =
                        IF "summary" \in DOMAIN ch THEN ch["summary"] ELSE ""
                  /\ result[c][i].topics =
                        IF "topics" \in DOMAIN ch THEN ch["topics"] ELSE <<>>

C8_Witness ==
    /\ pc[MainCall] = "returned"
    /\ Len(result[MainCall]) = 2
    /\ DOMAIN transcript[MainCall]["chapters"][1] = {"start", "end"}
    /\ result[MainCall][1] =
          [start_ms |-> 9000, end_ms |-> 4000, text |-> "", topics |-> <<>>,
           sentiment |-> "neutral", confidence |-> 10]
    /\ result[MainCall][2].sentiment = "positive"
    /\ result[MainCall][2].confidence = 8
    /\ result[MainCall][2].text = ""

----------------------------------------------------------------------------
(* Scoring of match_content *)

\* the labels a list of topics and the preferred topics have in common
SharedLabels(topics, preferred) ==
    {l \in SetOf(topics) \cup SetOf(preferred) :
        (\E i \in DOMAIN topics : topics[i] = l)
        /\ (\E k \in DOMAIN preferred : preferred[k] = l)}

\* the score the specification gives a segment, in hundredths:
\* (0.5 * shared labels + 0.3 if the tone matches) * confidence
SpecifiedScore(segment, T, P) ==
    (5 * Cardinality(SharedLabels(segment.topics, T))
        + (IF segment.sentiment = P THEN 3 ELSE 0)) * segment.confidence

BothKeys(prefs) == {"topics", "preferred_tone"} \subseteq DOMAIN prefs

\* C9: for preferences {topics: T, preferred_tone: P}, the score returned
\* with a segment is (0.5 * the number of distinct labels in both
\* segment.topics and T + 0.3 if segment.sentiment = P) * segment.confidence,
\* not divided by the number of topics of the segment, and every segment
\* for which this is positive is returned with it; the segment with topics
\* tech and sports, sentiment positive and confidence 0.8 scores 0.64
\* against {topics: [tech], preferred_tone: positive}.
C9_ScoreFormula ==
    (last_call = "match_content" /\ BothKeys(preferences))
    => LET T == preferences["topics"]
           P == preferences["preferred_tone"]
       IN  /\ \A j \in DOMAIN matches :
                 matches[j][2] = SpecifiedScore(matches[j][1], T, P)
           /\ \A i \in DOMAIN segments :
                 SpecifiedScore(segments[i], T, P) > 0
                 => \E j \in DOMAIN matches :
                       matches[j] = <<segments[i], SpecifiedScore(segments[i], T, P)>>
           /\ \A i \in DOMAIN segments :
                 (/\ segments[i].topics = <<"tech", "sports">>
                  /\ segments[i].sentiment = "positive"
                  /\ segments[i].confidence = 8
                  /\ T = <<"tech">>
                  /\ P = "positive")
                 => \E j \in DOMAIN matches : matches[j] = <<segments[i], 64>>

C9_Witness ==
    /\ last_call = "match_content"
    /\ preferences = [topics |-> <<"tech">>, preferred_tone |-> "positive"]
    /\ Len(segments) = 2
    /\ segments[2].topics = <<"tech", "sports">>
    /\ segments[2].sentiment = "positive"
    /\ segments[2].confidence = 8
    /\ \E j \in DOMAIN matches : matches[j] = <<segments[2], 64>>

\* the number of indices of a list that satisfy a test
CountOf(list, Test(_)) == Cardinality({i \in DOMAIN list : Test(list[i])})

\* C10: a segment of the working set is in the output of match_content if
\* and only if its final score is greater than 0, once for each time it
\* scores so; a segment with confidence 0 is not in the output whatever its
\* topics and sentiment, and neither is a segment that shares no topic with
\* the preferences and whose sentiment is not the preferred tone.
C10_IncludedIffPositive ==
    last_call = "match_content"
    => /\ \A i \in DOMAIN segments :
             (\E j \in DOMAIN matches : matches[j][1] = segments[i])
             <=> Score(segments[i], preferences) > 0
       /\ Len(matches) = CountOf(segments, LAMBDA g : Score(g, preferences) > 0)
       /\ \A j \in DOMAIN matches :
             /\ matches[j][2] > 0
             /\ matches[j][1].confidence # 0
             /\ \/ SharedLabels(matches[j][1].topics, Get(preferences, "topics", <<>>)) # {}
                \/ matches[j][1].sentiment = Get(preferences, "preferred_tone", None)

C10_Witness ==
    /\ last_call = "match_content"
    /\ preferences = [topics |-> <<"tech">>, preferred_tone |-> "positive"]
    /\ Len(segments) = 2
    /\ Len(matches) = 1
    /\ segments[1].confidence = 0
    /\ segments[1].topics = <<"tech">>
    /\ segments[1].sentiment = "positive"
    /\ matches[1][1] = segments[2]

----------------------------------------------------------------------------
(* The kinds of the errors of analyze_audio *)

Steps == {"upload", "submit", "poll"}

\* a call has failed in one of the three steps
FailedInStep(c) == pc[c] = "raised" /\ LastStep(c) \in Steps

\* the step a caller reads from the leading text of a message
MessageStep(text) ==
    CASE text = "Failed to upload file: " -> "upload"
      [] text = "Failed to create transcription. Status code: " -> "submit"
      [] text = "Failed to get transcription ID from API response" -> "submit"
      [] text = "Transcription failed: " -> "poll"
      [] OTHER -> None

----------------------------------------------------------------------------
(* The order of the output of match_content *)

\* the segments of a list of pairs that carry one score, in the list's order
SegmentsScoring(ms, score) ==
    LET picked == SelectSeq(ms, LAMBDA m : m[2] = score)
    IN  [j \in DOMAIN picked |-> picked[j][1]]

\* the segments of the working set that get one score, in insertion order
InsertedScoring(score) ==
    SelectSeq(segments, LAMBDA g : Score(g, preferences) = score)

\* C11: the list match_content returns is ordered by non-increasing score,
\* and the returned segments that carry one score are in the order in which
\* they were inserted into the working set.
C11_SortedAndStable ==
    last_call = "match_content"
    => /\ \A j \in 1..(Len(matches) - 1) : matches[j][2] >= matches[j + 1][2]
       /\ \A j \in DOMAIN matches :
             SegmentsScoring(matches, matches[j][2]) = InsertedScoring(matches[j][2])

C11_Witness ==
    /\ last_call = "match_content"
    /\ Len(matches) = 2
    /\ matches[1][2] = matches[2][2]
    /\ matches[1][1] # matches[2][1]
    /\ matches[1][1] = segments[1]
    /\ matches[2][1] = segments[2]

----------------------------------------------------------------------------
(* The working set of the matcher *)

\* C12: after two add_segments calls, match_content scores every element of
\* both arguments: each occurrence that scores above 0 gives exactly one
\* pair of the output, so a segment added twice, in one batch or in two, is
\* returned twice and nothing is cut off.
C12_AllOccurrencesScored ==
    (last_call = "match_content" /\ add_calls >= 2)
    => /\ Len(matches) = CountOf(added, LAMBDA g : Score(g, preferences) > 0)
       /\ \A i \in DOMAIN added :
             CountOf(matches, LAMBDA m : m[1] = added[i])
             = IF Score(added[i], preferences) > 0
               THEN CountOf(added, LAMBDA g : g = added[i])
               ELSE 0

C12_Witness ==
    /\ last_call = "match_content"
    /\ add_calls = 2
    /\ Len(added) = 2
    /\ added[1] = added[2]
    /\ Len(matches) = 2
    /\ matches[1] = matches[2]

\* C18: the working set is, in every state, the concatenation in call order
\* of the arguments of the add_segments calls so far, and is empty at first;
\* add_segments appends at the end, match_content leaves the working set as
\* it is, and match_content called again with the same preferences returns
\* the same list.
C18_SegmentsAreTheArguments == segments = added

C18_AppendOnly ==
    /\ Len(segments') >= Len(segments)
    /\ SubSeq(segments', 1, Len(segments)) = segments
    /\ last_call' = "match_content" => segments' = segments
    /\ (last_call = "match_content" /\ last_call' = "match_content"
        /\ preferences' = preferences)
       => matches' = matches

C18_WorkingSetIsAppendOnly ==
    /\ segments = <<>>
    /\ []C18_SegmentsAreTheArguments
    /\ [][C18_AppendOnly]_vars

C18_Witness ==
    /\ last_call = "match_content"
    /\ add_calls = 2
    /\ Len(segments) = 2
    /\ segments[1] # segments[2]
    /\ Len(matches) = 1
    /\ segments = added

----------------------------------------------------------------------------
(* Preferences without a key *)

\* C13: when the preferences have no preferred_tone key, no returned score
\* holds the 0.3 of the tone, whatever the sentiment of the segment (None
\* included); when they have no topics key, no returned score holds a topic
\* part; when they have neither key, match_content returns the empty list.
C13_AbsentKeysContributeNothing ==
    last_call = "match_content"
    => /\ "preferred_tone" \notin DOMAIN preferences
          => \A j \in DOMAIN matches :
                matches[j][2] =
                    5 * Cardinality(SharedLabels(matches[j][1].topics,
                                                 Get(preferences, "topics", <<>>)))
                      * matches[j][1].confidence
       /\ "topics" \notin DOMAIN preferences
          => \A j \in DOMAIN matches : matches[j][2] <= 3 * matches[j][1].confidence
       /\ DOMAIN preferences = {} => matches = <<>>

----------------------------------------------------------------------------
(* The chunks of an upload *)

----------------------------------------------------------------------------
(* Topics are matched as sets *)

\* the labels of a list of topics, each once
Labels(topics) == {l \in {"tech", "sports", "news"} : \E i \in DOMAIN topics : topics[i] = l}

\* the part of a returned score that does not come from the topics, as
\* line 170 adds it
TonePart(segment, prefs) ==
    IF segment.sentiment = Get(prefs, "preferred_tone", None) THEN 3 ELSE 0

\* after match_content: each distinct label in both lists gives 0.5 once,
\* and two segments that differ only in the repetitions and the order of
\* their topics are returned with the same score or both left out
C19_EachSharedLabelOnce ==
    last_call = "match_content"
    => LET T == Labels(Get(preferences, "topics", <<>>))
       IN  /\ \A j \in DOMAIN matches :
                 matches[j][2] =
                     (5 * Cardinality(Labels(matches[j][1].topics) \cap T)
                        + TonePart(matches[j][1], preferences))
                     * matches[j][1].confidence
           /\ \A i, k \in DOMAIN segments :
                 (/\ Labels(segments[i].topics) = Labels(segments[k].topics)
                  /\ segments[i].sentiment = segments[k].sentiment
                  /\ segments[i].confidence = segments[k].confidence)
                 => /\ (\E j \in DOMAIN matches : matches[j][1] = segments[i])
                       <=> (\E j \in DOMAIN matches : matches[j][1] = segments[k])
                    /\ \A j, n \in DOMAIN matches :
                          (matches[j][1] = segments[i] /\ matches[n][1] = segments[k])
                          => matches[j][2] = matches[n][2]

\* a match_content after a match_content on the same working set, with
\* preferred topics that differ only in repetitions and order and with the
\* same tone, returns the same list
C19_PreferredTopicsAsSet ==
    (/\ last_call = "match_content"
     /\ last_call' = "match_content"
     /\ Labels(Get(preferences, "topics", <<>>)) = Labels(Get(preferences', "topics", <<>>))
     /\ Get(preferences, "preferred_tone", None) = Get(preferences', "preferred_tone", None))
    => matches' = matches

\* C19: topic matching is membership-only: repeating a label in
\* segment.topics or in the preferences' topics does not change a segment's
\* score, each distinct label present in both contributes 0.5 exactly once,
\* and the order of the labels in either list is irrelevant.
C19_MembershipOnly == []C19_EachSharedLabelOnce /\ [][C19_PreferredTopicsAsSet]_vars

C19_Witness ==
    /\ last_call = "match_content"
    /\ preferences = [topics |-> <<"tech", "tech">>, preferred_tone |-> "negative"]
    /\ Len(segments) = 2
    /\ segments[1].topics = <<"tech", "tech">>
    /\ segments[2].topics = <<"sports", "tech">>
    /\ segments[1].sentiment = "positive"
    /\ segments[1].confidence = 8
    /\ Len(matches) = 2
    /\ matches[1] = <<segments[1], 40>>
    /\ matches[2] = <<segments[2], 40>>

----------------------------------------------------------------------------
(* One segment per chapter *)

\* a segment carries the start, the end and every field a chapter gives
BuiltFrom(segment, chapter) ==
    /\ segment.start_ms = chapter["start"]
    /\ segment.end_ms = chapter["end"]
    /\ "summary" \in DOMAIN chapter => segment.text = chapter["summary"]
    /\ "topics" \in DOMAIN chapter => segment.topics = chapter["topics"]
    /\ "sentiment" \in DOMAIN chapter => segment.sentiment = chapter["sentiment"]
    /\ "confidence" \in DOMAIN chapter => segment.confidence = chapter["confidence"]

\* C20: when the completed response has a non-empty chapters array,
\* analyze_audio returns exactly one segment per chapter in the order of the
\* chapters: the result is as long as the array and its i-th segment is
\* built from the i-th chapter; nothing is filtered, merged or reordered,
\* and a chapter whose start is not before its end gives a segment as well.
C20_OneSegmentPerChapter ==
    \A c \in Calls :
        (/\ LastStep(c) = "poll"
         /\ LastStatus(c) = "completed"
         /\ Get(transcript[c], "chapters", <<>>) # <<>>)
        => LET chapters == transcript[c]["chapters"]
           IN  /\ pc[c] = "returned"
               /\ Len(result[c]) = Len(chapters)
               /\ \A i \in DOMAIN chapters : BuiltFrom(result[c][i], chapters[i])

C20_Witness ==
    /\ pc[MainCall] = "returned"
    /\ LastStatus(MainCall) = "completed"
    /\ "chapters" \in DOMAIN transcript[MainCall]
    /\ Len(transcript[MainCall]["chapters"]) = 2
    /\ transcript[MainCall]["chapters"][1]["start"] = 0
    /\ transcript[MainCall]["chapters"][2]["start"] = 9000
    /\ transcript[MainCall]["chapters"][2]["end"] = 4000
    /\ "summary" \in DOMAIN transcript[MainCall]["chapters"][2]
    /\ Len(result[MainCall]) = 2
    /\ result[MainCall][1].start_ms = 0
    /\ result[MainCall][2].start_ms = 9000
    /\ result[MainCall][2].end_ms = 4000
    /\ result[MainCall][2].text = "Outro"

----------------------------------------------------------------------------
(* The order of the requests of a call *)

\* the positions of the requests of one step in a call's log
StepIndices(c, step) == {i \in DOMAIN requests[c] : StepOf(requests[c][i]) = step}

\* a call went past the resolution of its source: it has an audio_url
Resolved(c) == pc[c] # "idle" /\ audio_url[c] # None

\* the log of a call: at most one upload, the first request, there if and
\* only if the source is a local file; at most one submit, right after it,
\* and exactly one once the call left the submit step; then only polls,
\* each for the call's job id
C15_RequestLog ==
    \A c \in Calls :
        LET log == requests[c]
            first == IF is_url[c] THEN 1 ELSE 2
        IN  /\ \A i \in DOMAIN log : StepOf(log[i]) \in {"upload", "submit", "poll"}
            /\ StepIndices(c, "upload") = IF is_url[c] \/ log = <<>> THEN {} ELSE {1}
            /\ StepIndices(c, "submit") \subseteq {first}
            /\ StepIndices(c, "poll") = {i \in DOMAIN log : i > first}
            /\ (log = <<>> /\ ~is_url[c]) => pc[c] \in {"idle", "upload", "raised"}
            /\ (Resolved(c) /\ pc[c] # "submit") => CountStep(c, "submit") = 1
            /\ ~Resolved(c) => CountStep(c, "submit") = 0
            /\ \A i \in StepIndices(c, "submit") :
                  log[i].json.audio_url = audio_url[c]
            /\ StepIndices(c, "poll") # {}
               => /\ transcript_id[c] \in JobIds
                  /\ \A i \in StepIndices(c, "poll") :
                        log[i].url = <<analyzer.base_url, "/transcript/", transcript_id[c]>>

\* the steps of a call: the submit follows a 200 answer to the upload and
\* carries its upload_url, or carries the source when the source is a URL;
\* the first poll follows a 200 answer to the submit and the job id is the
\* id of that answer, kept for the rest of the call
C15_RequestSteps ==
    \A c \in Calls :
        /\ (pc[c] = "submit" /\ pc'[c] # "submit")
           => LET sent == requests'[c][Len(requests'[c])]
              IN  /\ StepOf(sent) = "submit"
                  /\ IF is_url[c]
                     THEN sent.json.audio_url = audio_path[c]
                     ELSE /\ response[c].status_code = 200
                          /\ sent.json.audio_url = response[c].json["upload_url"]
        /\ (pc[c] = "submit" /\ pc'[c] = "poll")
           => /\ response'[c].status_code = 200
              /\ transcript_id'[c] = response'[c].json["id"]
        /\ (pc[c] = "poll" /\ pc'[c] # "poll")
           => /\ CountStep(c, "submit") = 1
              /\ requests'[c][Len(requests'[c])] =
                    [method |-> "GET",
                     url |-> <<"https://api.assemblyai.com/v2", "/transcript/",
                               transcript_id[c]>>,
                     headers |-> analyzer.headers]
        /\ pc[c] \in {"poll", "sleep"} => transcript_id'[c] = transcript_id[c]

\* C15: in every run of analyze_audio the requests are issued in the order
\* upload (one, if and only if is_url is false), submit (one), polls (any
\* number); no submit precedes a successful upload, no poll precedes a 200
\* answer to the submit that carries an id, every poll targets the job id of
\* the call's own submit, and the submitted audio_url is the source when
\* is_url is true and the returned upload_url otherwise.
C15_RequestOrder == []C15_RequestLog /\ [][C15_RequestSteps]_vars

C15_Witness ==
    /\ pc[MainCall] = "returned"
    /\ ~is_url[MainCall]
    /\ audio_url[MainCall] = "https://cdn.assemblyai.com/upload/u2"
    /\ transcript_id[MainCall] = "job2"
    /\ Len(requests[MainCall]) = 4
    /\ StepOf(requests[MainCall][1]) = "upload"
    /\ requests[MainCall][2].json.audio_url = "https://cdn.assemblyai.com/upload/u2"
    /\ requests[MainCall][3].url[3] = "job2"
    /\ requests[MainCall][4].url[3] = "job2"

----------------------------------------------------------------------------
(* The end of the polling loop *)

\* a returned list stands after a poll answered completed and has one
\* segment for each chapter of that answer; after a poll answered completed
\* or error the call is over
C16_EndsAtTerminalPoll ==
    \A c \in Calls :
        /\ pc[c] = "returned"
           => /\ LastStep(c) = "poll"
              /\ Get(response[c].json, "status", None) = "completed"
              /\ LET chapters == Get(response[c].json, "chapters", <<>>)
                 IN  /\ Len(result[c]) = Len(chapters)
                     /\ \A i \in DOMAIN chapters :
                           /\ result[c][i].start_ms = chapters[i]["start"]
                           /\ result[c][i].end_ms = chapters[i]["end"]
        /\ (LastStep(c) = "poll"
            /\ Get(response[c].json, "status", None) \in {"completed", "error"})
           => pc[c] \in {"returned", "raised"}

\* a call that is over issues no further request, and the poll that is
\* answered completed or error is the step that ends the call
C16_NoPollAfterTheEnd ==
    \A c \in Calls :
        /\ pc[c] \in {"returned", "raised"}
           => (requests'[c] = requests[c] \/ requests'[c] = <<>>)
        /\ (pc[c] = "poll" /\ pc'[c] \in {"poll", "sleep"})
           => Get(response'[c].json, "status", None) \notin {"completed", "error"}
        /\ (pc[c] = "poll" /\ pc'[c] = "returned")
           => /\ Get(response'[c].json, "status", None) = "completed"
              /\ Len(result'[c]) = Len(Get(response'[c].json, "chapters", <<>>))

\* C16: analyze_audio returns a segment list only after a poll response with
\* status completed, and the list is built from the chapters of that same
\* response, never from an earlier one; a poll answered completed or error
\* ends the call at that poll, with a result or an exception and no further
\* poll; so a call in its polling loop whose job becomes terminal ends.
C16_TerminalStatusEndsCall ==
    /\ []C16_EndsAtTerminalPoll
    /\ [][C16_NoPollAfterTheEnd]_vars
    /\ \A c \in {MainCall} :
          (pc[c] \in {"poll", "sleep"}) ~> (pc[c] \in {"returned", "raised"})

C16_Witness ==
    /\ pc[MainCall] = "returned"
    /\ CountStep(MainCall, "poll") = 2
    /\ response[MainCall].json =
          [status |-> "completed",
           chapters |-> <<[start |-> 9000, end |-> 4000], [start |-> 0, end |-> 5000]>>]
    /\ Len(result[MainCall]) = 2
    /\ result[MainCall][1].start_ms = 9000
    /\ result[MainCall][2].start_ms = 0

----------------------------------------------------------------------------
(* Two calls at the same time *)

\* what one call holds: its arguments, its locals, its requests, its outcome
CallState(c) ==
    <<pc[c], audio_path[c], is_url[c], audio_url[c], transcript_id[c], response[c],
      transcript[c], requests[c], raised[c], result[c]>>

\* how a call ended
Outcome(c) == <<pc[c], raised[c], result[c]>>

Ended(c) == pc[c] \in {"returned", "raised"}

\* each call polls its own job and never the job of the other call, and two
\* calls that ended in the same step on the same answer ended the same way
C17_OwnJobOwnOutcome ==
    \A c, d \in Calls :
        /\ \A i \in DOMAIN requests[c] :
              StepOf(requests[c][i]) = "poll"
              => /\ requests[c][i].url[3] = transcript_id[c]
                 /\ (c # d /\ transcript_id[d] # transcript_id[c])
                    => requests[c][i].url[3] # transcript_id[d]
        /\ (/\ Ended(c) /\ Ended(d)
            /\ audio_path[c] = audio_path[d] /\ is_url[c] = is_url[d]
            /\ LastStep(c) = LastStep(d)
            /\ response[c] = response[d])
           => Outcome(c) = Outcome(d)

\* a step belongs to one call and changes nothing of the other call; it
\* leaves the analyzer's fields as they are; a call starts from its
\* arguments alone
C17_StepsOfOneCall ==
    /\ \A c, d \in Calls :
          (c # d /\ CallState(c)' # CallState(c)) => CallState(d)' = CallState(d)
    /\ analyzer' = analyzer
    /\ \A c \in Calls :
          (Ended(c) /\ CallState(c)' # CallState(c))
          => /\ requests'[c] = <<>>
             /\ transcript_id'[c] = None
             /\ response'[c] = EmptyObject
             /\ result'[c] = <<>>
             /\ pc'[c] = IF MissingLocalFile(audio_path'[c], is_url'[c]) THEN "raised"
                         ELSE IF is_url'[c] THEN "submit" ELSE "upload"

\* C17: in any interleaving of two analyze_audio calls whose submits return
\* distinct job ids, each call polls only its own job and its outcome
\* depends only on the responses to its own requests; a call leaves the
\* analyzer's api key, base URL and headers unchanged, so that a later call
\* behaves the same whatever the earlier calls did.
C17_CallsAreIndependent == []C17_OwnJobOwnOutcome /\ [][C17_StepsOfOneCall]_vars

C17_Witness ==
    /\ pc["c1"] = "returned"
    /\ pc["c2"] = "sleep"
    /\ transcript_id["c1"] = "job1"
    /\ transcript_id["c2"] = "job2"
    /\ CountStep("c1", "poll") = 2
    /\ CountStep("c2", "poll") = 1
    /\ requests["c1"][Len(requests["c1"])].url[3] = "job1"
    /\ requests["c2"][Len(requests["c2"])].url[3] = "job2"

====
